---- MODULE Spec2Model ----
(***************************************************************************)
(* Merkle tree over a list of client balance records (src/main.ts):        *)
(* hashList, computeMerkleTree, generateMerkleProofWithOrder,              *)
(* generateProofForEveryUser and verifyMerkleProofWithOrder.               *)
(*                                                                         *)
(* JavaScript values are records [typ, num, props]; a string produced by   *)
(* JSON.stringify is the sequence of its tokens; a hex digest string is    *)
(* the record [alg, pre] of the algorithm and the text that was digested   *)
(* (the digest is collision-free: two digests are equal exactly when       *)
(* algorithm and text are); the concatenation of two digest strings is     *)
(* the record [left, right].                                               *)
(***************************************************************************)
EXTENDS Integers, Sequences, FiniteSets, TLC

VARIABLES
    inputList,   \* the ClientList handed to the operations
    algorithm,   \* the DigestAlgorithm argument of the session
    pc,          \* position of computeMerkleTree: "idle", "loop", "done", "failed"
    hashes,      \* computeMerkleTree's local `hashes`
    fullTree,    \* computeMerkleTree's local `fullTree`, returned when pc = "done"
    error,       \* message of the error computeMerkleTree threw ("" if none)
    hashListCalls, \* number of calls of hashList computeMerkleTree has made
    hashed,      \* outcome of the direct hashList call (NoCall if none)
    proof,       \* outcome of the generateMerkleProofWithOrder call
    verdict,     \* outcome of the verifyMerkleProofWithOrder call
    paths        \* outcome of the generateProofForEveryUser call

vars == <<inputList, algorithm, pc, hashes, fullTree, error, hashListCalls, hashed, proof,
          verdict, paths>>

----------------------------------------------------------------------------
(* Bounds of the model *)

MaxClients == 5   \* longest list of well-formed Client Entries
MaxAnyLen == 2    \* longest list that may hold malformed entries
MaxLong == 17     \* longest list of the long lists (clients 1, 2, 3 in turn)

----------------------------------------------------------------------------
(* JavaScript values *)

\* a JS number: finite, NaN or Infinity
Num(n) == [cls |-> "finite", n |-> n]
NaN == [cls |-> "NaN", n |-> 0]
Infinity == [cls |-> "Infinity", n |-> 0]

\* Account = [string, number]
Account(token, amount) == [token |-> token, amount |-> amount]

\* ClientData = { [key in UID]: Account[] } : an object with one property
ClientData(uid, accounts) ==
    [typ |-> "object", num |-> 0, props |-> <<[key |-> uid, val |-> accounts]>>]

JSNull == [typ |-> "null", num |-> 0, props |-> <<>>]
JSNumber(n) == [typ |-> "number", num |-> n, props |-> <<>>]
JSArray == [typ |-> "array", num |-> 0, props |-> <<>>]
JSObject(props) == [typ |-> "object", num |-> 0, props |-> props]

\* the value of an out-of-range array read
Undefined == [undefined |-> TRUE]

\* typeof v
typeof(v) == IF v.typ = "number" THEN "number" ELSE "object"

\* Array.isArray(v)
IsArray(v) == v.typ = "array"

\* Object.keys(v); throws a TypeError on null
ObjectKeysThrows(v) == v.typ = "null"
ObjectKeys(v) == [k \in 1..Len(v.props) |-> v.props[k].key]

----------------------------------------------------------------------------
(* JSON.stringify, as the sequence of the tokens of its output *)

\* a number: NaN and Infinity are written null
JSONNumber(a) == IF a.cls = "finite" THEN ToString(a.n) ELSE "null"

JSONAccount(acc) == <<"[", "str:" \o acc.token, ",", JSONNumber(acc.amount), "]">>

RECURSIVE JSONAccounts(_, _)
JSONAccounts(accs, k) ==
    IF k > Len(accs) THEN <<>>
    ELSE (IF k > 1 THEN <<",">> ELSE <<>>) \o JSONAccount(accs[k]) \o JSONAccounts(accs, k + 1)

RECURSIVE JSONProps(_, _)
JSONProps(props, k) ==
    IF k > Len(props) THEN <<>>
    ELSE (IF k > 1 THEN <<",">> ELSE <<>>)
         \o <<"str:" \o props[k].key, ":", "[">> \o JSONAccounts(props[k].val, 1) \o <<"]">>
         \o JSONProps(props, k + 1)

JSONstringify(v) ==
    CASE v.typ = "number" -> <<ToString(v.num)>>
      [] v.typ = "null" -> <<"null">>
      [] v.typ = "array" -> <<"[", "]">>
      [] OTHER -> <<"{">> \o JSONProps(v.props, 1) \o <<"}">>

----------------------------------------------------------------------------
(* The digest *)

Algorithms == {"SHA-256", "SHA-512"}
DefaultAlgorithm == "SHA-256"

\* toHashString(await crypto.subtle.digest(alg, new TextEncoder().encode(text)))
digest(alg, text) == [alg |-> alg, pre |-> text]

\* the text JSON.stringify(item)
JSONText(item) == [json |-> JSONstringify(item)]

\* the text leftHash + rightHash
Concat(leftHash, rightHash) == [left |-> leftHash, right |-> rightHash]

----------------------------------------------------------------------------
(* hashList *)

FormatError == "Invalid format for ClientList"
TypeError == "TypeError"
EmptyInputError == "Empty array of clients."
EmptyHashesError == "Empty array of hashes."

\* the body of inputList.forEach for one client: the error it throws, "" if none
CheckClient(client) ==
    IF typeof(client) # "object" \/ IsArray(client) THEN FormatError
    ELSE IF ObjectKeysThrows(client) THEN TypeError
    ELSE IF Len(ObjectKeys(client)) # 1 THEN FormatError
    ELSE ""

\* inputList.forEach from position k on: the first error thrown, "" if none
RECURSIVE ValidateFrom(_, _)
ValidateFrom(list, k) ==
    IF k > Len(list) THEN ""
    ELSE IF CheckClient(list[k]) # "" THEN CheckClient(list[k])
    ELSE ValidateFrom(list, k + 1)

\* the hashing loop from position k on, hashedList being the digests pushed so far
RECURSIVE HashFrom(_, _, _, _)
HashFrom(list, k, alg, hashedList) ==
    IF k > Len(list) THEN hashedList
    ELSE HashFrom(list, k + 1, alg, Append(hashedList, digest(alg, JSONText(list[k]))))

\* hashList(inputList, algorithm): ok and value (the returned list), or the error
\* thrown; digests counts the calls of crypto.subtle.digest
hashList(list, alg) ==
    LET err == ValidateFrom(list, 1) IN
    IF err # ""
    THEN [ok |-> FALSE, error |-> err, value |-> <<>>, digests |-> 0]
    ELSE LET hashedList == HashFrom(list, 1, alg, <<>>) IN
         [ok |-> TRUE, error |-> "", value |-> hashedList, digests |-> Len(hashedList)]

----------------------------------------------------------------------------
(* computeMerkleTree *)

\* faulty variant of PairUp: the loop stops at the last full pair and drops an
\* unpaired last hash
RECURSIVE PairUp_DropUnpaired(_, _, _)
PairUp_DropUnpaired(hs, i, alg) ==
    IF i + 1 >= Len(hs) THEN <<>>
    ELSE <<digest(alg, Concat(hs[i + 1], hs[i + 2]))>> \o PairUp_DropUnpaired(hs, i + 2, alg)

\* the for loop over pairs, from index i (0-based) on
RECURSIVE PairUp(_, _, _)
PairUp(hs, i, alg) ==
    IF i >= Len(hs) THEN <<>>
    ELSE LET leftHash == hs[i + 1]
             rightHash == IF i + 1 < Len(hs) THEN hs[i + 2] ELSE leftHash
         IN <<digest(alg, Concat(leftHash, rightHash))>> \o PairUp(hs, i + 2, alg)

\* faulty variant of PairUp: the pair is concatenated right hash first
RECURSIVE PairUp_Swapped(_, _, _)
PairUp_Swapped(hs, i, alg) ==
    IF i >= Len(hs) THEN <<>>
    ELSE LET leftHash == hs[i + 1]
             rightHash == IF i + 1 < Len(hs) THEN hs[i + 2] ELSE leftHash
         IN <<digest(alg, Concat(rightHash, leftHash))>> \o PairUp_Swapped(hs, i + 2, alg)

\* faulty variant of NextLevel: built from PairUp_Swapped
NextLevel_Swapped(hs, alg) ==
    LET nextLevel == PairUp_Swapped(hs, 0, alg) IN
    IF Len(nextLevel) % 2 # 0 /\ Len(hs) > 2
    THEN Append(nextLevel, nextLevel[Len(nextLevel)])
    ELSE nextLevel

\* faulty variant of NextLevel: built from PairUp_DropUnpaired
NextLevel_DropUnpaired(hs, alg) ==
    LET nextLevel == PairUp_DropUnpaired(hs, 0, alg) IN
    IF Len(nextLevel) % 2 # 0 /\ Len(hs) > 2
    THEN Append(nextLevel, nextLevel[Len(nextLevel)])
    ELSE nextLevel

\* faulty variant of NextLevel: the padding also applies above a level of 2
NextLevel_PadFromTwo(hs, alg) ==
    LET nextLevel == PairUp(hs, 0, alg) IN
    IF Len(nextLevel) % 2 # 0 /\ Len(hs) >= 2
    THEN Append(nextLevel, nextLevel[Len(nextLevel)])
    ELSE nextLevel

\* one iteration of the while loop: the level above hs
NextLevel(hs, alg) ==
    LET nextLevel == PairUp(hs, 0, alg) IN
    IF Len(nextLevel) % 2 # 0 /\ Len(hs) > 2
    THEN Append(nextLevel, nextLevel[Len(nextLevel)])
    ELSE nextLevel

\* the while loop run to its end
RECURSIVE BuildLevels(_, _, _)
BuildLevels(tree, hs, alg) ==
    IF Len(hs) > 1
    THEN BuildLevels(Append(tree, NextLevel(hs, alg)), NextLevel(hs, alg), alg)
    ELSE tree

\* computeMerkleTree(inputList, algorithm) as one function: ok and tree, or the error
computeMerkleTree(list, alg) ==
    IF Len(list) = 0 THEN [ok |-> FALSE, error |-> EmptyInputError, tree |-> <<>>]
    ELSE LET hl == hashList(list, DefaultAlgorithm) IN
         IF ~hl.ok THEN [ok |-> FALSE, error |-> hl.error, tree |-> <<>>]
         ELSE IF Len(hl.value) = 0 THEN [ok |-> FALSE, error |-> EmptyHashesError, tree |-> <<>>]
         ELSE [ok |-> TRUE, error |-> "", tree |-> BuildLevels(<<hl.value>>, hl.value, alg)]

\* tree[tree.length - 1][0]
Root(tree) == tree[Len(tree)][1]

----------------------------------------------------------------------------
(* generateMerkleProofWithOrder *)

\* level.indexOf(x): 0-based index of the first occurrence, -1 if none
RECURSIVE IndexOfFrom(_, _, _)
IndexOfFrom(level, x, k) ==
    IF k > Len(level) THEN -1
    ELSE IF level[k] = x THEN k - 1
    ELSE IndexOfFrom(level, x, k + 1)

\* faulty variant of IndexOf: the index of the last occurrence (lastIndexOf)
IndexOf_Last(level, x) ==
    IF \A k \in 1..Len(level) : level[k] # x THEN -1
    ELSE (CHOOSE k \in 1..Len(level) :
            level[k] = x /\ \A j \in (k + 1)..Len(level) : level[j] # x) - 1

IndexOf(level, x) == IndexOfFrom(level, x, 1)

\* the for loop from level i (0-based) on, index being the node's position there
RECURSIVE ProofFrom(_, _, _, _)
ProofFrom(merkleTree, i, index, proofSoFar) ==
    IF i >= Len(merkleTree) - 1 THEN proofSoFar
    ELSE LET isIndexEven == index % 2 = 0
             siblingIndex == IF isIndexEven THEN index + 1 ELSE index - 1
             level == merkleTree[i + 1]
             pushed == IF siblingIndex >= 0 /\ siblingIndex < Len(level)
                       THEN Append(proofSoFar,
                                   [hash |-> level[siblingIndex + 1], isRight |-> isIndexEven])
                       ELSE proofSoFar
         IN ProofFrom(merkleTree, i + 1, index \div 2, pushed)

\* generateMerkleProofWithOrder(leafHash, merkleTree), merkleTree not empty
generateMerkleProofWithOrder(leafHash, merkleTree) ==
    LET leafIndex == IndexOf(merkleTree[1], leafHash) IN
    IF leafIndex = -1 THEN [null |-> TRUE, proof |-> <<>>]
    ELSE [null |-> FALSE, proof |-> ProofFrom(merkleTree, 0, leafIndex, <<>>)]

----------------------------------------------------------------------------
(* generateProofForEveryUser *)

\* clientID[0]
FirstKey(client) == IF Len(ObjectKeys(client)) = 0 THEN "undefined" ELSE ObjectKeys(client)[1]

ProofNotFoundError(id) == "Proof not found for user " \o id

\* faulty variant of LeafAt: the position is not advanced
LeafAt_First(merkleTree, i) ==
    IF 0 < Len(merkleTree[1]) THEN merkleTree[1][1] ELSE Undefined

\* merkleTree[0][i]
LeafAt(merkleTree, i) ==
    IF i < Len(merkleTree[1]) THEN merkleTree[1][i + 1] ELSE Undefined

\* faulty variant of ProveFrom: a client whose proof is not found is skipped
RECURSIVE ProveFrom_SkipMissing(_, _, _, _)
ProveFrom_SkipMissing(list, merkleTree, i, path) ==
    IF i >= Len(list) THEN [ok |-> TRUE, error |-> "", value |-> path]
    ELSE IF ObjectKeysThrows(list[i + 1]) \/ Len(merkleTree) = 0
    THEN [ok |-> FALSE, error |-> "TypeError", value |-> <<>>]
    ELSE LET found == generateMerkleProofWithOrder(
                          IF i < Len(merkleTree[1]) THEN merkleTree[1][i + 1]
                          ELSE [undefined |-> TRUE], merkleTree)
         IN IF found.null
            THEN ProveFrom_SkipMissing(list, merkleTree, i + 1, path)
            ELSE ProveFrom_SkipMissing(list, merkleTree, i + 1,
                     Append(path, [id |-> ObjectKeys(list[i + 1])[1], proof |-> found.proof]))

\* the for loop from client i (0-based) on, path holding the entries pushed so far
RECURSIVE ProveFrom(_, _, _, _)
ProveFrom(list, merkleTree, i, path) ==
    IF i >= Len(list) THEN [ok |-> TRUE, error |-> "", value |-> path]
    ELSE IF ObjectKeysThrows(list[i + 1]) \/ Len(merkleTree) = 0
    THEN [ok |-> FALSE, error |-> TypeError, value |-> <<>>]
    ELSE LET client == list[i + 1]
             found == generateMerkleProofWithOrder(LeafAt(merkleTree, i), merkleTree)
         IN IF found.null
            THEN [ok |-> FALSE, error |-> ProofNotFoundError(FirstKey(client)), value |-> <<>>]
            ELSE ProveFrom(list, merkleTree, i + 1,
                           Append(path, [id |-> FirstKey(client), proof |-> found.proof]))

\* faulty variant of generateProofForEveryUser: built from ProveFrom_SkipMissing
generateProofForEveryUser_SkipMissing(list, merkleTree) ==
    ProveFrom_SkipMissing(list, merkleTree, 0, <<>>)

generateProofForEveryUser(list, merkleTree) == ProveFrom(list, merkleTree, 0, <<>>)

----------------------------------------------------------------------------
(* verifyMerkleProofWithOrder *)

\* the for loop over the proof from entry k on
RECURSIVE FoldProof(_, _, _, _)
FoldProof(computedHash, proofPath, k, alg) ==
    IF k > Len(proofPath) THEN computedHash
    ELSE LET proofHash == proofPath[k]
             stringToHash == IF proofHash.isRight
                             THEN Concat(computedHash, proofHash.hash)
                             ELSE Concat(proofHash.hash, computedHash)
         IN FoldProof(digest(alg, stringToHash), proofPath, k + 1, alg)

\* the hash the verifier compares with merkleRoot
ComputedHash(leafRawData, proofPath, alg) ==
    FoldProof(digest(alg, JSONText(leafRawData)), proofPath, 1, alg)

verifyMerkleProofWithOrder(leafRawData, merkleRoot, proofPath, alg) ==
    ComputedHash(leafRawData, proofPath, alg) = merkleRoot

----------------------------------------------------------------------------
(* Inputs *)

\* well-formed Client Entries
Client(i) ==
    CASE i = 1 -> ClientData("c1", <<Account("t1", Num(1))>>)
      [] i = 2 -> ClientData("c2", <<Account("t1", Num(2))>>)
      [] OTHER -> ClientData("c3", <<Account("t1", NaN)>>)

Clients == {Client(1), Client(2), Client(3)}

\* entries that are not single-key objects
Malformed ==
    { JSNull, JSNumber(1), JSArray, JSObject(<<>>),
      JSObject(<<[key |-> "a", val |-> <<>>], [key |-> "b", val |-> <<>>]>>) }

ClientLists == UNION {[1..n -> Clients] : n \in 0..MaxClients}
AnyLists == UNION {[1..n -> Clients \cup Malformed] : n \in 0..MaxAnyLen}
LongLists == {[i \in 1..n |-> Client(1 + (i % 3))] : n \in (MaxClients + 1)..MaxLong}
InputLists == ClientLists \cup AnyLists \cup LongLists

\* the Balance Records a record can be changed into
BalanceRecords == {Account("t1", a) : a \in {Num(1), Num(2), NaN, Infinity}}

\* the entries obtained from a Client Entry by changing a single Balance Record
Tampered(client) ==
    LET accounts == client.props[1].val IN
    { ClientData(client.props[1].key, [accounts EXCEPT ![k] = r]) :
        <<k, r>> \in {kr \in (1..Len(accounts)) \X BalanceRecords : accounts[kr[1]] # kr[2]} }

\* a root string that is no digest
InvalidRoot == [text |-> "invalid root"]

\* a leaf hash that is in no tree
NonExistingHash == [text |-> "non-existing hash"]

\* an entry of no list
NonexistentUser == ClientData("nonexistentUser", <<Account("nonExistantToken", Num(1))>>)

NoCall == [called |-> FALSE]

----------------------------------------------------------------------------
(* The session: a list, an algorithm, and the calls made on them *)

Init ==
    /\ inputList \in InputLists
    /\ algorithm \in Algorithms
    /\ pc = "idle"
    /\ hashes = <<>>
    /\ fullTree = <<>>
    /\ error = ""
    /\ hashListCalls = 0
    /\ hashed = NoCall
    /\ proof = NoCall
    /\ verdict = NoCall
    /\ paths = NoCall

\* a direct call hashList(inputList, algorithm)
HashList ==
    /\ pc = "idle"
    /\ hashed' = [called |-> TRUE, out |-> hashList(inputList, algorithm)]
    /\ pc' = "hashed"
    /\ UNCHANGED <<inputList, algorithm, hashListCalls, hashes, fullTree, error, proof, verdict, paths>>

\* faulty variant of computeMerkleTreeEntry: the list is hashed before it is
\* tested for emptiness
computeMerkleTreeEntry_HashFirst(list) ==
    LET hl == hashList(list, DefaultAlgorithm) IN
    IF ~hl.ok
    THEN [ok |-> FALSE, error |-> hl.error, hashes |-> <<>>, hashListCalls |-> 1]
    ELSE IF Len(list) = 0
    THEN [ok |-> FALSE, error |-> "Empty array of clients.", hashes |-> <<>>, hashListCalls |-> 1]
    ELSE [ok |-> TRUE, error |-> "", hashes |-> hl.value, hashListCalls |-> 1]

\* computeMerkleTree up to the while loop: the error thrown, or the leaf
\* hashes; hashListCalls counts the calls of hashList made
computeMerkleTreeEntry(list) ==
    IF Len(list) = 0
    THEN [ok |-> FALSE, error |-> EmptyInputError, hashes |-> <<>>, hashListCalls |-> 0]
    ELSE LET hl == hashList(list, DefaultAlgorithm) IN
         IF ~hl.ok
         THEN [ok |-> FALSE, error |-> hl.error, hashes |-> <<>>, hashListCalls |-> 1]
         ELSE IF Len(hl.value) = 0
         THEN [ok |-> FALSE, error |-> EmptyHashesError, hashes |-> <<>>, hashListCalls |-> 1]
         ELSE [ok |-> TRUE, error |-> "", hashes |-> hl.value, hashListCalls |-> 1]

\* computeMerkleTree(inputList, algorithm) up to the while loop
ComputeStart ==
    /\ pc = "idle"
    /\ LET entry == computeMerkleTreeEntry(inputList) IN
       /\ hashListCalls' = entry.hashListCalls
       /\ IF ~entry.ok
          THEN /\ pc' = "failed"
               /\ error' = entry.error
               /\ UNCHANGED <<hashes, fullTree>>
          ELSE /\ pc' = "loop"
               /\ hashes' = entry.hashes
               /\ fullTree' = <<entry.hashes>>
               /\ UNCHANGED error
    /\ UNCHANGED <<inputList, algorithm, hashed, proof, verdict, paths>>

\* one iteration of the while loop
ComputeLevel ==
    /\ pc = "loop"
    /\ Len(hashes) > 1
    /\ hashes' = NextLevel(hashes, algorithm)
    /\ fullTree' = Append(fullTree, hashes')
    /\ UNCHANGED <<inputList, algorithm, hashListCalls, pc, error, hashed, proof, verdict, paths>>

\* the loop ends and fullTree is returned
ComputeReturn ==
    /\ pc = "loop"
    /\ ~(Len(hashes) > 1)
    /\ pc' = "done"
    /\ UNCHANGED <<inputList, algorithm, hashListCalls, hashes, fullTree, error, hashed, proof, verdict, paths>>

\* generateMerkleProofWithOrder(hashList([inputList[i]])[0], fullTree)
GenerateProof(i) ==
    /\ pc = "done"
    /\ ~proof.called /\ ~paths.called
    /\ LET leafHash == hashList(<<inputList[i]>>, DefaultAlgorithm).value[1] IN
       proof' = [called |-> TRUE, i |-> i, leafHash |-> leafHash, tree |-> fullTree,
                 out |-> generateMerkleProofWithOrder(leafHash, fullTree)]
    /\ UNCHANGED <<inputList, algorithm, hashListCalls, pc, hashes, fullTree, error, hashed, verdict, paths>>

\* generateMerkleProofWithOrder("non-existing hash", fullTree)
GenerateProofUnknown ==
    /\ pc = "done"
    /\ ~proof.called /\ ~paths.called
    /\ proof' = [called |-> TRUE, i |-> 0, leafHash |-> NonExistingHash, tree |-> fullTree,
                 out |-> generateMerkleProofWithOrder(NonExistingHash, fullTree)]
    /\ UNCHANGED <<inputList, algorithm, hashListCalls, pc, hashes, fullTree, error, hashed, verdict, paths>>

\* a tree not built by computeMerkleTree: fullTree with every level above
\* level 0 cut to its first entry
CutTree == [k \in 1..Len(fullTree) |-> IF k = 1 THEN fullTree[1] ELSE <<fullTree[k][1]>>]

\* generateMerkleProofWithOrder(level0[i], CutTree)
GenerateProofCut(i) ==
    /\ pc = "done"
    /\ ~proof.called /\ ~paths.called
    /\ CutTree # fullTree
    /\ proof' = [called |-> TRUE, i |-> i, leafHash |-> fullTree[1][i], tree |-> CutTree,
                 out |-> generateMerkleProofWithOrder(fullTree[1][i], CutTree)]
    /\ UNCHANGED <<inputList, algorithm, hashListCalls, pc, hashes, fullTree, error, hashed, verdict, paths>>

\* the claimed roots tried: the tree's root, a string that is no digest, and the
\* hash the proof folds the entry to
ClaimedRoots(client, proofPath) ==
    {Root(fullTree), InvalidRoot, ComputedHash(client, proofPath, algorithm)}

\* verifyMerkleProofWithOrder(entry, root, proof, algorithm) with the last proof
\* generated, for the client it was generated for or a tampered copy of it
Verify ==
    /\ pc = "done"
    /\ ~verdict.called
    /\ proof.called
    /\ proof.i > 0
    /\ proof.tree = fullTree
    /\ ~proof.out.null
    /\ \E entry \in {inputList[proof.i]} \cup Tampered(inputList[proof.i]) :
         \E root \in ClaimedRoots(inputList[proof.i], proof.out.proof) :
           verdict' = [called |-> TRUE, entry |-> entry, root |-> root,
                       out |-> verifyMerkleProofWithOrder(entry, root, proof.out.proof, algorithm)]
    /\ UNCHANGED <<inputList, algorithm, hashListCalls, pc, hashes, fullTree, error, hashed, proof, paths>>

\* the lists handed to generateProofForEveryUser with the tree of inputList
BatchLists == {inputList} \cup {Append(inputList, c) : c \in {NonexistentUser, Client(1)}}

\* generateProofForEveryUser(list, fullTree)
ProveAll(list) ==
    /\ pc \in {"done", "failed"}
    /\ ~proof.called /\ ~paths.called
    /\ paths' = [called |-> TRUE, list |-> list, out |-> generateProofForEveryUser(list, fullTree)]
    /\ UNCHANGED <<inputList, algorithm, hashListCalls, pc, hashes, fullTree, error, hashed, proof, verdict>>

Next ==
    \/ HashList
    \/ ComputeStart
    \/ ComputeLevel
    \/ ComputeReturn
    \/ \E i \in 1..Len(inputList) : GenerateProof(i)
    \/ GenerateProofUnknown
    \/ \E i \in 1..Len(inputList) : GenerateProofCut(i)
    \/ Verify
    \/ \E list \in BatchLists : ProveAll(list)

Spec == Init /\ [][Next]_vars

----------------------------------------------------------------------------
(* Properties *)

\* the verifier was called with the tree built by default, i.e. as
\* computeMerkleTree(L) and verifyMerkleProofWithOrder(entry, root, proof)
VerifiedByDefault == pc = "done" /\ algorithm = DefaultAlgorithm /\ verdict.called

\* C1: round trip: the proof generated for the hash of L[i] verifies L[i]
\* against the root of the tree of L, for every position i of every list L
C1_RoundTrip ==
    (VerifiedByDefault /\ verdict.entry = inputList[proof.i] /\ verdict.root = Root(fullTree))
        => verdict.out = TRUE

\* C2: a claimed root that differs from the root of the tree is rejected,
\* whatever it is, for the entry L[i] and the proof generated for it
C2_WrongRootRejected ==
    (VerifiedByDefault /\ verdict.entry = inputList[proof.i] /\ verdict.root # Root(fullTree))
        => verdict.out = FALSE

\* C3: an entry obtained from L[i] by changing a single Balance Record is
\* rejected against the true root with the proof generated for L[i]
C3_TamperSensitive ==
    (VerifiedByDefault /\ verdict.entry \in Tampered(inputList[proof.i])
        /\ verdict.root = Root(fullTree))
        => verdict.out = FALSE

\* C4: level 0 of computeMerkleTree(L, a) is hashList(L, a), for every algorithm a
C4_UniformDigest ==
    pc \in {"loop", "done"} => fullTree[1] = hashList(inputList, algorithm).value

\* C5: two non-empty lists of Client Entries that differ as sequences have
\* different roots
C5_RootCommits ==
    (pc = "done" /\ algorithm = DefaultAlgorithm /\ inputList \in ClientLists)
        => \A other \in ClientLists :
             (Len(other) > 0 /\ other # inputList)
                 => Root(computeMerkleTree(other, algorithm).tree) # Root(fullTree)

\* ceil(log2(n)): the least k with 2^k >= n
CeilLog2(n) == CHOOSE k \in 0..n : 2^k >= n /\ \A j \in 0..(k - 1) : 2^j < n

\* C6: the tree of a list of N >= 1 entries has ceil(log2(N)) + 1 levels
C6_Depth ==
    pc = "done" => Len(fullTree) = CeilLog2(Len(inputList)) + 1

\* a tree of 9 leaves with two padded levels (5 to 6 and 3 to 4) is returned
C6_Witness ==
    /\ pc = "done"
    /\ Len(inputList) = 9
    /\ Len(fullTree[2]) = 6
    /\ Len(fullTree[3]) = 4
    /\ Len(fullTree) = 5

\* C7: level 0 has one entry per entry of the list, every level built is
\* strictly shorter than the one below it and not empty (so the loop runs at
\* most N - 1 times), and the tree returned has exactly one level of length
\* 1, its last
C7_Shape ==
    /\ pc \in {"loop", "done"} =>
         /\ Len(fullTree[1]) = Len(inputList)
         /\ hashes = fullTree[Len(fullTree)]
         /\ \A k \in 2..Len(fullTree) :
              Len(fullTree[k]) >= 1 /\ Len(fullTree[k]) < Len(fullTree[k - 1])
    /\ pc = "done" =>
         \A k \in 1..Len(fullTree) : (Len(fullTree[k]) = 1) <=> (k = Len(fullTree))

\* the loop has ended on a tree of 5 leaves with a padded level
C7_Witness ==
    /\ pc = "done"
    /\ Len(fullTree[1]) = 5
    /\ Len(fullTree[2]) = 4
    /\ Len(fullTree[Len(fullTree)]) = 1

\* an entry that is not a single-key mapping
NotSingleKey(v) == v.typ # "object" \/ Len(v.props) # 1

\* C8: hashList of a list with an entry that is not a single-key mapping
\* throws the format error, computes no digest and returns nothing
C8_FailFast ==
    (hashed.called /\ \E k \in 1..Len(inputList) : NotSingleKey(inputList[k]))
        => /\ ~hashed.out.ok
           /\ hashed.out.error = FormatError
           /\ hashed.out.digests = 0
           /\ hashed.out.value = <<>>

\* the positions (0-based) of the list whose single-leaf lookup returns null
NotFoundAt(list, merkleTree) ==
    {i \in 0..(Len(list) - 1) :
        generateMerkleProofWithOrder(LeafAt(merkleTree, i), merkleTree).null}

Least(S) == CHOOSE i \in S : \A j \in S : i <= j

\* C9: when the lookup of some client of the list returns null, the batch
\* throws the error naming that client and returns no proofs
C9_AllOrNothing ==
    (paths.called /\ pc = "done" /\ NotFoundAt(paths.list, fullTree) # {})
        => /\ ~paths.out.ok
           /\ paths.out.error =
                ProofNotFoundError(
                    paths.list[Least(NotFoundAt(paths.list, fullTree)) + 1].props[1].key)
           /\ paths.out.value = <<>>

\* the batch failed on the entry added to a list of 3 clients
C9_Witness ==
    /\ paths.called
    /\ pc = "done"
    /\ Len(inputList) = 3
    /\ paths.list = Append(inputList, NonexistentUser)
    /\ paths.out.error = ProofNotFoundError("nonexistentUser")

\* C10: the batch for L and the tree of L returns one entry per client, in
\* order, mapping the client's identifier to the single-leaf proof of
\* level0[i]; for the empty list it returns the empty sequence
C10_BatchSingle ==
    (paths.called /\ paths.list = inputList /\ (pc = "done" \/ inputList = <<>>))
        => /\ paths.out.ok
           /\ Len(paths.out.value) = Len(inputList)
           /\ \A i \in 1..Len(inputList) :
                /\ ~generateMerkleProofWithOrder(fullTree[1][i], fullTree).null
                /\ paths.out.value[i] =
                     [id |-> inputList[i].props[1].key,
                      proof |-> generateMerkleProofWithOrder(fullTree[1][i], fullTree).proof]

\* the batch returned the proofs of a list of 5 clients, two of them different
C10_Witness ==
    /\ paths.called
    /\ pc = "done"
    /\ paths.list = inputList
    /\ Len(inputList) = 5
    /\ paths.out.ok
    /\ Len(paths.out.value) = 5
    /\ paths.out.value[1].proof # paths.out.value[5].proof

\* C11: computeMerkleTree of the empty list throws the empty-input error,
\* builds no tree, and has not called hashList (no validation, no hashing)
C11_EmptyInput ==
    (inputList = <<>> /\ pc \notin {"idle", "hashed"})
        => /\ pc = "failed"
           /\ error = EmptyInputError
           /\ fullTree = <<>>
           /\ hashes = <<>>
           /\ hashListCalls = 0

\* computeMerkleTree was called on the empty list and threw
C11_Witness ==
    /\ inputList = <<>>
    /\ pc = "failed"
    /\ error = EmptyInputError

\* the position (0-based) of the first occurrence of h in a level holding it
FirstOccurrence(level, h) ==
    CHOOSE k \in 0..(Len(level) - 1) :
        level[k + 1] = h /\ \A j \in 0..(k - 1) : level[j + 1] # h

\* what the rule appends at level k (0-based) for the leaf at position first:
\* the node is at position first div 2^k there
RuleEntry(merkleTree, first, k) ==
    LET index == first \div (2^k)
        level == merkleTree[k + 1]
    IN IF index % 2 = 0
       THEN IF index + 1 < Len(level)
            THEN <<[hash |-> level[index + 2], isRight |-> TRUE]>>
            ELSE <<>>
       ELSE IF index - 1 < Len(level)
            THEN <<[hash |-> level[index], isRight |-> FALSE]>>
            ELSE <<>>

\* what the rule appends at the levels 0 .. k - 1
RECURSIVE RuleProof(_, _, _)
RuleProof(merkleTree, first, k) ==
    IF k = 0 THEN <<>>
    ELSE RuleProof(merkleTree, first, k - 1) \o RuleEntry(merkleTree, first, k - 1)

\* C12: generateMerkleProofWithOrder returns null exactly when the leaf hash
\* is not in level 0; otherwise the proof is what the rule gives from the
\* first occurrence of the hash over all levels but the last, so it has at
\* most depth - 1 entries and is empty for a tree of one level
C12_ProofRule ==
    proof.called =>
        LET level0 == proof.tree[1]
            present == \E k \in 1..Len(level0) : level0[k] = proof.leafHash
        IN /\ proof.out.null <=> ~present
           /\ present =>
                /\ proof.out.proof =
                     RuleProof(proof.tree, FirstOccurrence(level0, proof.leafHash),
                               Len(proof.tree) - 1)
                /\ Len(proof.out.proof) <= Len(proof.tree) - 1
                /\ Len(proof.tree) = 1 => proof.out.proof = <<>>

\* the proof of the last of 5 leaves, whose sibling at level 0 is out of
\* bounds: it has one entry less than levels climbed
C12_Witness ==
    /\ proof.called
    /\ proof.tree = fullTree
    /\ Len(inputList) = 5
    /\ proof.i = 5
    /\ ~proof.out.null
    /\ IndexOf(fullTree[1], proof.leafHash) = 4
    /\ Len(proof.out.proof) = Len(fullTree) - 2

\* ceil(n / 2)
CeilHalf(n) == (n + 1) \div 2

\* level `above` follows the construction rule from level `below`
FollowsRule(below, above) ==
    LET n == Len(below)
        padded == CeilHalf(n) % 2 = 1 /\ n > 2
    IN /\ Len(above) = CeilHalf(n) + (IF padded THEN 1 ELSE 0)
       /\ \A j \in 0..(CeilHalf(n) - 1) :
            above[j + 1] =
                digest(algorithm,
                       Concat(below[2 * j + 1],
                              IF 2 * j + 1 < n THEN below[2 * j + 2] ELSE below[2 * j + 1]))
       /\ padded => above[CeilHalf(n) + 1] = above[CeilHalf(n)]

\* C13: every level above level 0 follows the construction rule from the
\* level below it (pairs in left-right order, the unpaired last hash paired
\* with itself, one copy of the last entry added exactly when ceil(n/2) is
\* odd and n > 2), so every level other than level 0 and the root has even
\* length
C13_LevelRule ==
    pc \in {"loop", "done"} =>
        /\ \A k \in 1..(Len(fullTree) - 1) : FollowsRule(fullTree[k], fullTree[k + 1])
        /\ \A k \in 2..Len(fullTree) :
             Len(fullTree[k]) = 1 \/ Len(fullTree[k]) % 2 = 0

\* the tree of 5 different-looking leaves: level 1 ends with the self-pairing
\* of the fifth leaf and a copy of it
C13_Witness ==
    /\ pc = "done"
    /\ Len(fullTree[1]) = 5
    /\ fullTree[1][4] # fullTree[1][5]
    /\ Len(fullTree[2]) = 4
    /\ fullTree[2][3] = digest(algorithm, Concat(fullTree[1][5], fullTree[1][5]))
    /\ fullTree[2][4] = fullTree[2][3]

====
